---- MODULE Spec2Model ----
(***************************************************************************)
(* LogParser of the DAoC combat-log reporter: the damage_dealt_pattern     *)
(* regular expression, the parse() generator that applies it line by line, *)
(* and main's loop that prints each event.                                 *)
(*                                                                         *)
(* A line of text is a sequence of one-character strings.                  *)
(***************************************************************************)
EXTENDS Integers, Sequences, FiniteSets, TLC

(***************************************************************************)
(* Character classes of Python's re module (ASCII part).                   *)
(***************************************************************************)
Digits == <<"0", "1", "2", "3", "4", "5", "6", "7", "8", "9">>

Letters ==
    {"a", "b", "c", "d", "e", "f", "g", "h", "i", "j", "k", "l", "m",
     "n", "o", "p", "q", "r", "s", "t", "u", "v", "w", "x", "y", "z",
     "A", "B", "C", "D", "E", "F", "G", "H", "I", "J", "K", "L", "M",
     "N", "O", "P", "Q", "R", "S", "T", "U", "V", "W", "X", "Y", "Z"}

\* \d
IsDigit(c) == \E k \in 1..Len(Digits) : Digits[k] = c

\* \s
IsSpace(c) == c \in {" ", "\t", "\n", "\r", "\f"}

\* \w
IsWord(c) == IsDigit(c) \/ c \in Letters \/ c = "_"

\* .  (no DOTALL flag: anything but a newline)
IsDot(c) == c # "\n"

(***************************************************************************)
(* The literals of damage_dealt_pattern.                                   *)
(***************************************************************************)
YouHit == <<"Y", "o", "u", " ", "h", "i", "t", " ">>

The == <<"t", "h", "e", " ">>

For == <<" ", "f", "o", "r", " ">>

PointsOf == <<" ", "p", "o", "i", "n", "t", "s", " ", "o", "f">>

Damage == <<" ", "d", "a", "m", "a", "g", "e">>

Unknown == <<"U", "n", "k", "n", "o", "w", "n">>

(***************************************************************************)
(* damage_dealt_pattern:                                                   *)
(*   \[(?P<timestamp>\d{2}:\d{2}:\d{2})\]\s+You hit (the )?(?P<target>.+?) *)
(*    for (?P<amount>\d+) points of((?P<type> \w+))? damage[!.]?           *)
(*                                                                         *)
(* Positions are 1-based indexes into the line; the "end" of a piece is    *)
(* the index of the first character after it.  A parse names the end the   *)
(* matcher chose for every piece of variable length.  The backtracking     *)
(* matcher returns the first parse in its order of trial: at each piece,   *)
(* from left to right, a greedy quantifier tries the longer alternative    *)
(* first and a lazy one the shorter.                                       *)
(***************************************************************************)
Min(S) == CHOOSE x \in S : \A y \in S : x <= y

\* the literal lit stands in s at position i
HasAt(s, i, lit) ==
    /\ i + Len(lit) - 1 <= Len(s)
    /\ \A k \in 1..Len(lit) : s[i + k - 1] = lit[k]

\* the end of the longest run of Class characters that starts at i
RunEnd(s, i, Class(_)) ==
    LET stops == {j \in i..Len(s) : ~Class(s[j])}
    IN IF stops = {} THEN Len(s) + 1 ELSE Min(stops)

\* the ends of the non-empty runs of Class characters that start at i
Runs(s, i, Class(_)) == (i + 1)..RunEnd(s, i, Class)

\* \[(?P<timestamp>\d{2}:\d{2}:\d{2})\]
TimestampClause(s) ==
    /\ Len(s) >= 10
    /\ s[1] = "[" /\ s[10] = "]"
    /\ s[4] = ":" /\ s[7] = ":"
    /\ \A k \in {2, 3, 5, 6, 8, 9} : IsDigit(s[k])

\* \s+You hit : the ends of the blanks, which start after the "]"
BlankEnds(s) == {j \in Runs(s, 11, IsSpace) : HasAt(s, j, YouHit)}

\* ArticleLens for a pattern that lacks the group (the )?
NoArticleLens(s, p) == {0}

\* (the )? : the lengths the article may take at p
ArticleLens(s, p) == {0} \cup (IF HasAt(s, p, The) THEN {Len(The)} ELSE {})

\* (?P<target>.+?) for : the ends of a target that starts at b
TargetEnds(s, b) == {e \in Runs(s, b, IsDot) : HasAt(s, e, For)}

\* (?P<amount>\d+) points of : the ends of an amount that starts at q
AmountEnds(s, q) == {r \in Runs(s, q, IsDigit) : HasAt(s, r, PointsOf)}

\* ((?P<type> \w+))? damage : the ends of the type group at u; the end u
\* itself stands for the group that took no part in the match
TypeEnds(s, u) ==
    (IF HasAt(s, u, Damage) THEN {u} ELSE {})
    \cup (IF u <= Len(s) /\ s[u] = " "
          THEN {v \in Runs(s, u + 1, IsWord) : HasAt(s, v, Damage)}
          ELSE {})

\* every way the pattern matches s from its first character
Parses(s) ==
    IF ~TimestampClause(s) THEN {}
    ELSE UNION {UNION {UNION {UNION {
             {[blankEnd |-> j, article |-> a, targetEnd |-> e,
               amountEnd |-> r, typeEnd |-> v] :
                 v \in TypeEnds(s, r + Len(PointsOf))} :
                 r \in AmountEnds(s, e + Len(For))} :
                 e \in TargetEnds(s, j + Len(YouHit) + a)} :
                 a \in ArticleLens(s, j + Len(YouHit))} :
                 j \in BlankEnds(s)}

\* the matcher tries p before q
Before(p, q) ==
    \/ p.blankEnd > q.blankEnd                          \* \s+      greedy
    \/ /\ p.blankEnd = q.blankEnd
       /\ \/ p.article > q.article                      \* (the )?  greedy
          \/ /\ p.article = q.article
             /\ \/ p.targetEnd < q.targetEnd            \* .+?      lazy
                \/ /\ p.targetEnd = q.targetEnd
                   /\ \/ p.amountEnd > q.amountEnd      \* \d+      greedy
                      \/ /\ p.amountEnd = q.amountEnd
                         /\ p.typeEnd > q.typeEnd       \* ( \w+)?  greedy

NoMatch ==
    [ok |-> FALSE, timestamp |-> <<>>, target |-> <<>>, amount |-> <<>>,
     hasType |-> FALSE, type |-> <<>>, end |-> 0]

\* [!.]?   (greedy, and nothing follows it, so it never backtracks)
Terminator(s, q) ==
    IF q <= Len(s) /\ s[q] \in {"!", "."} THEN q + 1 ELSE q

\* match.groupdict() and match.end() of the parse p of s; hasType = FALSE
\* stands for the group 'type' being None
Groups(s, p) ==
    [ok |-> TRUE,
     timestamp |-> SubSeq(s, 2, 9),
     target |-> SubSeq(s, p.blankEnd + Len(YouHit) + p.article, p.targetEnd - 1),
     amount |-> SubSeq(s, p.targetEnd + Len(For), p.amountEnd - 1),
     hasType |-> p.typeEnd > p.amountEnd + Len(PointsOf),
     type |-> SubSeq(s, p.amountEnd + Len(PointsOf), p.typeEnd - 1),
     end |-> Terminator(s, p.typeEnd + Len(Damage))]

\* the parse the matcher comes to first
Best(s) == CHOOSE p \in Parses(s) : \A q \in Parses(s) : p = q \/ Before(p, q)

\* Match as damage_dealt_pattern.search(line) would be: the first match
\* from any character of the line on
Search(s) ==
    LET starts == {k \in 1..Len(s) : Parses(SubSeq(s, k, Len(s))) # {}}
        rest == SubSeq(s, Min(starts), Len(s))
    IN IF starts = {} THEN NoMatch ELSE Groups(rest, Best(rest))

\* Match for a pattern that ends with $: the match must reach the end of
\* the line, or the newline that ends it
MatchToEnd(s) ==
    IF Parses(s) # {}
       /\ \/ Groups(s, Best(s)).end = Len(s) + 1
          \/ Groups(s, Best(s)).end = Len(s) /\ s[Len(s)] = "\n"
    THEN Groups(s, Best(s))
    ELSE NoMatch

\* damage_dealt_pattern.match(line): anchored at the first character of the
\* line, free at its end
Match(s) == IF Parses(s) = {} THEN NoMatch ELSE Groups(s, Best(s))

(***************************************************************************)
(* Field conversions.                                                      *)
(***************************************************************************)
\* the value of one decimal digit
DigitVal(c) == (CHOOSE k \in 1..Len(Digits) : Digits[k] = c) - 1

RECURSIVE ParseInt(_)
\* int(text) for a non-empty string of decimal digits
ParseInt(ds) ==
    IF ds = <<>> THEN 0
    ELSE ParseInt(SubSeq(ds, 1, Len(ds) - 1)) * 10 + DigitVal(ds[Len(ds)])

RECURSIVE LStrip(_)
LStrip(s) == IF s # <<>> /\ IsSpace(s[1]) THEN LStrip(Tail(s)) ELSE s

RECURSIVE RStrip(_)
RStrip(s) ==
    IF s # <<>> /\ IsSpace(s[Len(s)])
    THEN RStrip(SubSeq(s, 1, Len(s) - 1))
    ELSE s

\* Strip as str.lstrip() would be
StripLeft(s) == LStrip(s)

\* str.strip()
Strip(s) == RStrip(LStrip(s))

\* datetime.strptime(text, '%H:%M:%S').time() for text of the shape
\* dd:dd:dd.  %H takes 00..23, %M 00..59, %S 00..61; the time is then built,
\* which refuses a second above 59.  ok = FALSE stands for the ValueError.
Strptime(ts) ==
    LET h == ParseInt(SubSeq(ts, 1, 2))
        m == ParseInt(SubSeq(ts, 4, 5))
        sec == ParseInt(SubSeq(ts, 7, 8))
    IN IF h <= 23 /\ m <= 59 /\ sec <= 61 /\ sec <= 59
       THEN [ok |-> TRUE, hour |-> h, minute |-> m, second |-> sec]
       ELSE [ok |-> FALSE, hour |-> 0, minute |-> 0, second |-> 0]

\* DamageEvent(timestamp=..., source=..., target=..., damage_amount=...,
\* damage_type=...)
DamageEvent(timestamp, source, target, damage_amount, damage_type) ==
    [timestamp |-> timestamp, source |-> source, target |-> target,
     damage_amount |-> damage_amount, damage_type |-> damage_type]

\* DamageType without the strip()
DamageTypeUnstripped(m) ==
    IF m.hasType /\ m.type # <<>> THEN m.type ELSE Unknown

\* damage_type = data.get('type'); stripped when truthy, else 'Unknown'
DamageType(m) ==
    IF m.hasType /\ m.type # <<>> THEN Strip(m.type) ELSE Unknown

\* The body of parse()'s loop for one line: "skip" when the pattern does not
\* match, "raise" when building the event raises (strptime is the first
\* argument evaluated), "yield" with the event otherwise.
Classify(line) ==
    LET m == Match(line)
        t == Strptime(m.timestamp)
    IN IF ~m.ok THEN [outcome |-> "skip"]
       ELSE IF ~t.ok THEN [outcome |-> "raise", exc |-> "ValueError"]
       ELSE [outcome |-> "yield",
             event |-> DamageEvent(
                 [hour |-> t.hour, minute |-> t.minute, second |-> t.second],
                 "You", Strip(m.target), ParseInt(m.amount), DamageType(m))]

\* IsException for a clause "except OSError"
IsOSError(exc) ==
    exc \in {"FileNotFoundError", "PermissionError", "OSError"}

\* the exception classes that derive from Exception
IsException(exc) ==
    exc \in {"FileNotFoundError", "PermissionError", "OSError",
             "UnicodeDecodeError", "ValueError"}

\* Except without the clause for FileNotFoundError
ExceptAny(exc, path) ==
    IF IsException(exc)
    THEN [caught |-> TRUE, out |-> <<[kind |-> "error", exc |-> exc]>>]
    ELSE [caught |-> FALSE, out |-> <<>>]

\* parse()'s except clauses: what is printed, and whether the exception is
\* caught (the generator returns) or leaves parse()
Except(exc, path) ==
    IF exc = "FileNotFoundError"
    THEN [caught |-> TRUE, out |-> <<[kind |-> "notfound", path |-> path]>>]
    ELSE IF IsException(exc)
    THEN [caught |-> TRUE, out |-> <<[kind |-> "error", exc |-> exc]>>]
    ELSE [caught |-> FALSE, out |-> <<>>]

(***************************************************************************)
(* The log files the model reads.  A line is kept by the parts the game    *)
(* client wrote it from; LineText gives its characters.  The tables give,  *)
(* next to each text, the value the text stands for.                       *)
(***************************************************************************)
\* a bracketed time as the client writes it, two digits per component
Clock(h, m, sec) ==
    [text |-> <<Digits[(h \div 10) + 1], Digits[(h % 10) + 1], ":",
                Digits[(m \div 10) + 1], Digits[(m % 10) + 1], ":",
                Digits[(sec \div 10) + 1], Digits[(sec % 10) + 1]>>,
     hms |-> <<h, m, sec>>]

GoodTimes == {Clock(1, 23, 45), Clock(12, 0, 0), Clock(23, 59, 59)}

\* two digits per component, but no time of day
BadTimes == {Clock(99, 0, 0), Clock(12, 75, 0), Clock(23, 59, 60), Clock(24, 0, 0)}

\* not two digits per component
MalformedTimes ==
    {[text |-> <<"1", ":", "2", "3", ":", "4", "5", "6">>, hms |-> <<>>]}

Goblin ==
    [text |-> <<"a", " ", "g", "o", "b", "l", "i", "n">>,
     name |-> <<"a", " ", "g", "o", "b", "l", "i", "n">>]

Dragon ==
    [text |-> <<"d", "r", "a", "g", "o", "n">>,
     name |-> <<"d", "r", "a", "g", "o", "n">>]

GoodTargets ==
    {Goblin, Dragon,
     [text |-> <<"x", " ", "f", "o", "r", " ", "7">>,
      name |-> <<"x", " ", "f", "o", "r", " ", "7">>],
     [text |-> <<" ", "o", "r", "c", " ">>, name |-> <<"o", "r", "c">>],
     [text |-> <<"t", "h", "e">>, name |-> <<"t", "h", "e">>],
     [text |-> <<"t", "h", "e", " ">>, name |-> <<"t", "h", "e">>]}

NoTarget == [text |-> <<>>, name |-> <<>>]

Amount25 == [text |-> <<"2", "5">>, value |-> 25]

Amount100 == [text |-> <<"1", "0", "0">>, value |-> 100]

GoodAmounts ==
    {Amount25, Amount100,
     [text |-> <<"0">>, value |-> 0],
     [text |-> <<"0", "0", "7">>, value |-> 7]}

\* value -1: the text is no number
BadAmounts ==
    {[text |-> <<"x", "5">>, value |-> -1],
     [text |-> <<>>, value |-> -1]}

Slash == <<" ", "s", "l", "a", "s", "h">>

GoodTypes == {<<>>, Slash, <<" ", "U", "n", "k", "n", "o", "w", "n">>}

BadTypes == {<<" ", "f", "i", "r", "e", " ", "i", "c", "e">>}

OrcHitsYou ==
    <<"T", "h", "e", " ", "o", "r", "c", " ", "h", "i", "t", "s", " ", "y", "o", "u">>

Verbs == {YouHit, <<"y", "o", "u", " ", "h", "i", "t", " ">>, OrcHitsYou}

Prefixes == {<<>>, <<" ">>, <<"c", "h", "a", "t", ":", " ">>}

Terminators == {<<>>, <<"!">>, <<".">>}

\* the characters of a line written from its parts
LineText(l) ==
    IF l.kind = "chat" THEN l.text \o l.eol
    ELSE l.pre \o <<"[">> \o l.ts.text \o <<"]">> \o l.ws \o l.verb \o l.art
         \o l.target.text \o For \o l.amount.text \o PointsOf \o l.type
         \o Damage \o l.term \o l.suf \o l.eol

\* "[01:23:45] You hit a goblin for 25 points of slash damage!", the line
\* of test_parse_damage_dealt
Scenario1 ==
    [kind |-> "hit", pre |-> <<>>, ts |-> Clock(1, 23, 45), ws |-> <<" ">>,
     verb |-> YouHit, art |-> <<>>, target |-> Goblin, amount |-> Amount25,
     type |-> Slash, term |-> <<"!">>, suf |-> <<>>, eol |-> <<>>]

\* "[12:00:00] You hit the dragon for 100 points of damage."
Scenario2 ==
    [kind |-> "hit", pre |-> <<>>, ts |-> Clock(12, 0, 0), ws |-> <<" ">>,
     verb |-> YouHit, art |-> The, target |-> Dragon, amount |-> Amount100,
     type |-> <<>>, term |-> <<".">>, suf |-> <<>>, eol |-> <<>>]

\* what may follow a sentence on its line: nothing, a word, a second sentence
Suffixes == {<<>>, <<" ", "e", "x", "t", "r", "a">>, LineText(Scenario2)}

\* time, blanks, amount and line end vary together
Settings ==
    {[ts |-> Clock(1, 23, 45), ws |-> <<" ">>, amount |-> Amount25,
      eol |-> <<"\n">>],
     [ts |-> Clock(12, 0, 0), ws |-> <<"\t", " ">>, amount |-> Amount100,
      eol |-> <<>>],
     [ts |-> Clock(23, 59, 59), ws |-> <<" ", " ">>,
      amount |-> [text |-> <<"0">>, value |-> 0], eol |-> <<"\n">>],
     [ts |-> Clock(0, 0, 0), ws |-> <<" ">>,
      amount |-> [text |-> <<"0", "0", "7">>, value |-> 7], eol |-> <<>>]}

\* lines written to the grammar, each possibly followed by more text
GoodLines ==
    {[kind |-> "hit", pre |-> <<>>, ts |-> g.ts, ws |-> g.ws, verb |-> YouHit,
      art |-> b.art, target |-> b.target, amount |-> g.amount,
      type |-> b.type, term |-> b.term, suf |-> b.suf, eol |-> g.eol] :
        g \in Settings,
        b \in [art : {<<>>, The}, target : GoodTargets, type : GoodTypes,
               term : Terminators, suf : Suffixes]}

\* lines that depart from the grammar in any number of parts
OddLines ==
    {l \in [kind : {"hit"}, pre : Prefixes,
            ts : {Clock(1, 23, 45)} \cup BadTimes \cup MalformedTimes,
            ws : {<<" ">>, <<>>}, verb : Verbs, art : {<<>>, The},
            target : {NoTarget, Dragon},
            amount : {Amount25} \cup BadAmounts,
            type : {Slash} \cup BadTypes, term : {<<"!">>},
            suf : {<<>>}, eol : {<<"\n">>}] :
        \* "the " before an empty target is the target "the " with no article
        ~(l.art = The /\ l.target = NoTarget)}

\* "You sneeze."
Scenario3 ==
    [kind |-> "chat",
     text |-> <<"Y", "o", "u", " ", "s", "n", "e", "e", "z", "e", ".">>,
     eol |-> <<"\n">>]

EmptyLine == [kind |-> "chat", text |-> <<>>, eol |-> <<"\n">>]

\* the scenarios of the test plan, and an empty line
PlainLines == {Scenario1, Scenario2, Scenario3, EmptyLine}

\* the lines the longer files are written from
FewLines ==
    {Scenario3, EmptyLine,
     [Scenario1 EXCEPT !.eol = <<"\n">>],
     [Scenario2 EXCEPT !.eol = <<"\n">>, !.suf = LineText(Scenario1)],
     [Scenario2 EXCEPT !.eol = <<"\n">>, !.ts = Clock(99, 0, 0)],
     [Scenario1 EXCEPT !.eol = <<"\n">>, !.verb = OrcHitsYou,
                       !.target = NoTarget]}

\* the longest file of FewLines
MaxLines == 3

\* the files of more than one line
LongFiles == UNION {[1..n -> FewLines] : n \in 2..MaxLines}

Paths == {"chat.log", "combat.log"}

(***************************************************************************)
(* The run of main(): LogParser(path).parse() driven by the for loop.      *)
(***************************************************************************)
VARIABLES
    log_file_path,  \* self.log_file_path
    fs,             \* what open() finds at the path
    file,           \* the lines of the file at the path
    pc,             \* where the generator stands
    idx,            \* the index of the next line the iteration returns
    events,         \* the events parse() has yielded so far
    stdout,         \* what has been printed so far
    raised          \* an exception has left parse()

vars == <<log_file_path, fs, file, pc, idx, events, stdout, raised>>

Init ==
    /\ log_file_path \in Paths
    /\ fs \in {"file", "missing", "denied"}
    /\ \/ fs = "file" /\ file = <<>>
       \/ fs = "file" /\ \E l \in GoodLines : file = <<l>>
       \/ fs = "file" /\ \E l \in OddLines : file = <<l>>
       \/ fs = "file" /\ \E l \in PlainLines : file = <<l>>
       \/ fs = "file" /\ file \in LongFiles
       \/ fs # "file" /\ file = <<>>
    /\ pc = "open"
    /\ idx = 1
    /\ events = <<>>
    /\ stdout = <<>>
    /\ raised = FALSE

\* an exception raised inside the try block of parse()
Raise(exc) ==
    LET h == Except(exc, log_file_path)
    IN /\ pc' = "done"
       /\ stdout' = stdout \o h.out
       /\ raised' = ~h.caught
       /\ UNCHANGED <<log_file_path, fs, file, idx, events>>

\* open(self.log_file_path, 'r', encoding='utf-8')
Open ==
    /\ pc = "open"
    /\ CASE fs = "file" ->
              /\ pc' = "read"
              /\ UNCHANGED <<log_file_path, fs, file, idx, events, stdout, raised>>
         [] fs = "missing" -> Raise("FileNotFoundError")
         [] fs = "denied" -> Raise("PermissionError")

\* for line in f: one line is read and classified
ReadLine ==
    /\ pc = "read"
    /\ idx <= Len(file)
    /\ LET r == Classify(LineText(file[idx]))
       IN CASE r.outcome = "skip" ->
                 /\ idx' = idx + 1
                 /\ UNCHANGED <<log_file_path, fs, file, pc, events, stdout, raised>>
            [] r.outcome = "yield" ->
                 /\ idx' = idx + 1
                 /\ events' = Append(events, r.event)
                 /\ pc' = "yielded"
                 /\ UNCHANGED <<log_file_path, fs, file, stdout, raised>>
            [] r.outcome = "raise" -> Raise(r.exc)

\* for line in f: the file is exhausted, the with block closes it
ReadEOF ==
    /\ pc = "read"
    /\ idx > Len(file)
    /\ pc' = "done"
    /\ UNCHANGED <<log_file_path, fs, file, idx, events, stdout, raised>>

\* for line in f: reading or decoding the next chunk fails
ReadFail ==
    /\ pc = "read"
    /\ \E exc \in {"OSError", "UnicodeDecodeError"} : Raise(exc)

\* MainPrint for a main that shows the latest event first
MainPrintFirst ==
    /\ pc = "yielded"
    /\ stdout' = <<[kind |-> "event", event |-> events[Len(events)]]>> \o stdout
    /\ pc' = "read"
    /\ UNCHANGED <<log_file_path, fs, file, idx, events, raised>>

\* main: print(event), then the generator is resumed
MainPrint ==
    /\ pc = "yielded"
    /\ stdout' = Append(stdout, [kind |-> "event", event |-> events[Len(events)]])
    /\ pc' = "read"
    /\ UNCHANGED <<log_file_path, fs, file, idx, events, raised>>

Next == Open \/ ReadLine \/ ReadEOF \/ ReadFail \/ MainPrint

Spec == Init /\ [][Next]_vars

(***************************************************************************)
(* What a line is, read from the parts it was written from.                *)
(***************************************************************************)
\* the line has the shape of the grammar from its first character on:
\* "[dd:dd:dd]", blanks, "You hit ", a target, " for ", digits,
\* " points of", at most one type word, " damage"
Shaped(l) ==
    /\ l.kind = "hit"
    /\ l.pre = <<>>
    /\ l.ts \notin MalformedTimes
    /\ l.ws # <<>>
    /\ l.verb = YouHit
    /\ l.target # NoTarget
    /\ l.amount \notin BadAmounts
    /\ l.type \notin BadTypes

\* the bracketed time is a time of day
TimeOfDay(l) == l.ts.hms[1] < 24 /\ l.ts.hms[2] < 60 /\ l.ts.hms[3] < 60

\* the line conforms to the recognized grammar
Conforming(l) == Shaped(l) /\ TimeOfDay(l)

\* the word between " points of" and " damage", "Unknown" when there is none
TypeWord(l) == IF l.type = <<>> THEN Unknown ELSE Tail(l.type)

\* the event a conforming line stands for
Expected(l) ==
    [timestamp |-> [hour |-> l.ts.hms[1], minute |-> l.ts.hms[2],
                    second |-> l.ts.hms[3]],
     source |-> "You",
     target |-> l.target.name,
     damage_amount |-> l.amount.value,
     damage_type |-> TypeWord(l)]

\* The line reads two ways.  Its sentence has no article and the target
\* "the", and a second sentence follows it: "the " is as well the article of
\* a target that runs up to the " for <amount> points of" of the second
\* sentence, and that is the reading the matcher tries first.
Ambiguous(l) ==
    /\ l.kind = "hit"
    /\ l.art = <<>>
    /\ l.target.name = <<"t", "h", "e">>
    /\ l.suf = LineText(Scenario2)

\* the time of day of every event of a sequence
Stamps(es) == [k \in 1..Len(es) |-> es[k].timestamp]

\* the events of the conforming lines of a file, in the order of the lines
RECURSIVE EventsOf(_)
EventsOf(lines) ==
    IF lines = <<>> THEN <<>>
    ELSE (IF Conforming(lines[1]) THEN <<Expected(lines[1])>> ELSE <<>>)
         \o EventsOf(Tail(lines))

\* the generator stands before a line of the file
Reading == pc = "read" /\ idx <= Len(file)

\* the events printed so far, in the order of the printing
Printed ==
    LET shown == SelectSeq(stdout, LAMBDA o : o.kind = "event")
    IN [k \in 1..Len(shown) |-> shown[k].event]

\* the messages printed so far that are not events
Messages == SelectSeq(stdout, LAMBDA o : o.kind # "event")

(***************************************************************************)
(* C1.  A line that conforms to the grammar and ends with its sentence     *)
(* yields, when parse() comes to it, exactly one DamageEvent: the time of  *)
(* day in the brackets, source "You", the trimmed target, the base-10      *)
(* value of the digits and the type word.                                  *)
(***************************************************************************)
C1_ConformingLineYieldsItsEvent ==
    [][(Reading /\ Conforming(file[idx]) /\ file[idx].suf = <<>> /\ ~ReadFail)
        => /\ events' = Append(events, Expected(file[idx]))
           /\ pc' = "yielded"
           /\ idx' = idx + 1
           /\ stdout' = stdout]_vars

\* the line of test_parse_damage_dealt has yielded (01:23:45, "You",
\* "a goblin", 25, "slash")
C1_Witness ==
    /\ pc = "yielded"
    /\ file = <<Scenario1>>
    /\ events = <<[timestamp |-> [hour |-> 1, minute |-> 23, second |-> 45],
                   source |-> "You",
                   target |-> <<"a", " ", "g", "o", "b", "l", "i", "n">>,
                   damage_amount |-> 25,
                   damage_type |-> <<"s", "l", "a", "s", "h">>]>>

(***************************************************************************)
(* C2.  A line that does not conform to the grammar yields no event,       *)
(* prints nothing, and parse() goes on to the next line; so when the run   *)
(* has ended without an I/O error, as many events were yielded as the file *)
(* has conforming lines.                                                   *)
(***************************************************************************)
C2_NonConformingLineIsSkipped ==
    /\ [][(Reading /\ ~Conforming(file[idx]) /\ ~ReadFail)
           => /\ events' = events
              /\ stdout' = stdout
              /\ pc' = "read"
              /\ idx' = idx + 1]_vars
    /\ []((pc = "done" /\ fs = "file"
             /\ \A k \in 1..Len(Messages) :
                    Messages[k].exc \notin {"OSError", "UnicodeDecodeError"})
           => Len(events) = Len(EventsOf(file)))

(***************************************************************************)
(* C3.  A line that has the shape of the grammar but whose bracketed time  *)
(* is no time of day is treated as a line that does not match: no event,   *)
(* no fault, and parse() continues with the lines that follow.             *)
(***************************************************************************)
C3_BadTimeOfDayIsSkipped ==
    [][(Reading /\ Shaped(file[idx]) /\ ~TimeOfDay(file[idx]) /\ ~ReadFail)
        => /\ events' = events
           /\ raised' = FALSE
           /\ pc' = "read"
           /\ idx' = idx + 1]_vars

(***************************************************************************)
(* C4.  When no file stands at the path, parse() yields nothing, prints    *)
(* exactly one message, which holds the path, and ends without raising.    *)
(***************************************************************************)
C4_MissingFile ==
    fs = "missing"
        => /\ events = <<>>
           /\ ~raised
           /\ \/ pc = "open" /\ stdout = <<>>
              \/ /\ pc = "done"
                 /\ stdout = <<[kind |-> "notfound", path |-> log_file_path]>>

C4_Witness ==
    /\ fs = "missing"
    /\ pc = "done"
    /\ log_file_path = "combat.log"
    /\ stdout = <<[kind |-> "notfound", path |-> "combat.log"]>>

(***************************************************************************)
(* C5.  When an error other than file-not-found occurs while the file is   *)
(* read, parse() prints one generic message and ends without raising: the  *)
(* events yielded before stay yielded, and none is yielded afterwards.     *)
(***************************************************************************)
C5_ReadErrorEndsTheRun ==
    [][/\ ReadFail
          => /\ events' = events
             /\ pc' = "done"
             /\ ~raised'
             /\ Len(stdout') = Len(stdout) + 1
             /\ SubSeq(stdout', 1, Len(stdout)) = stdout
             /\ stdout'[Len(stdout')].kind = "error"
       /\ pc = "done" => (events' = events /\ pc' = "done")]_vars

\* one event was yielded and printed, then the read failed
C5_Witness ==
    /\ pc = "done"
    /\ Len(file) = 3
    /\ idx = 2
    /\ events = <<Expected(Scenario1)>>
    /\ stdout = <<[kind |-> "event", event |-> Expected(Scenario1)],
                  [kind |-> "error", exc |-> "UnicodeDecodeError"]>>

(***************************************************************************)
(* C6.  The file is consumed line by line from the front, a line yields at *)
(* most one event, the k-th event comes from the k-th conforming line, and *)
(* main prints the events in that order.                                   *)
(***************************************************************************)
C6_EventsInFileOrder ==
    /\ idx \in 1..(Len(file) + 1)
    /\ Len(events) <= idx - 1
    /\ Stamps(events) = Stamps(EventsOf(SubSeq(file, 1, idx - 1)))
    /\ (\A k \in 1..(idx - 1) : ~Ambiguous(file[k]))
           => events = EventsOf(SubSeq(file, 1, idx - 1))
    /\ Printed = IF pc = "yielded"
                 THEN SubSeq(events, 1, Len(events) - 1)
                 ELSE events

\* a line of two sentences, then the line of scenario 1: two events
C6_Witness ==
    /\ pc = "done"
    /\ file = <<[Scenario2 EXCEPT !.eol = <<"\n">>, !.suf = LineText(Scenario1)],
                [Scenario1 EXCEPT !.eol = <<"\n">>]>>
    /\ events = <<Expected(Scenario2), Expected(Scenario1)>>
    /\ Printed = events

(***************************************************************************)
(* C7.  When the text after "You hit " starts with "the ", the target of   *)
(* the event does not include that article; a target without the article   *)
(* is kept whole.                                                          *)
(***************************************************************************)
\* the text after "You hit " starts with "the "
StartsWithArticle(l) == HasAt(l.art \o l.target.text \o For, 1, The)

\* the target once a leading article is taken away
SansArticle(l) ==
    IF ~StartsWithArticle(l) \/ l.art = The THEN l.target.name ELSE <<>>

\* as claimed: the article never is part of the target
C7_ArticleNeverInTarget ==
    [][(Reading /\ Conforming(file[idx]) /\ ~Ambiguous(file[idx]) /\ ~ReadFail)
        => /\ Len(events') = Len(events) + 1
           /\ events'[Len(events')].target = SansArticle(file[idx])]_vars

\* as amended: the article is left out whenever target text stands between
\* it and a clause " for <amount> points of ... damage"; where "the" is all
\* there is before the only such clause, the target is "the"
C7_ArticleLeftOutBeforeATarget ==
    [][(Reading /\ Conforming(file[idx]) /\ ~ReadFail)
        => /\ Len(events') = Len(events) + 1
           /\ LET l == file[idx]
                  target == events'[Len(events')].target
              IN CASE l.art = The -> target = l.target.name
                   [] Ambiguous(l) ->
                          /\ target # <<"t", "h", "e">>
                          /\ ~HasAt(target, 1, The)
                   [] StartsWithArticle(l) /\ l.art = <<>> /\ ~Ambiguous(l) ->
                          target = <<"t", "h", "e">>
                   [] OTHER -> target = l.target.name]_vars

\* scenario 2 has yielded the target "dragon", the amount 100 and the type
\* "Unknown"
C7_Witness ==
    /\ pc = "yielded"
    /\ file = <<Scenario2>>
    /\ events[1].target = <<"d", "r", "a", "g", "o", "n">>
    /\ events[1].damage_amount = 100
    /\ events[1].damage_type = Unknown

(***************************************************************************)
(* C8.  The event of a conforming line without a type word has the type    *)
(* "Unknown"; with a type word, the type is that word without blanks       *)
(* around it, and it is "Unknown" only when the word is.                   *)
(***************************************************************************)
C8_DamageType ==
    (pc = "yielded" /\ Conforming(file[idx - 1]) /\ ~Ambiguous(file[idx - 1]))
        => LET l == file[idx - 1]
               e == events[Len(events)]
           IN /\ l.type = <<>> => e.damage_type = Unknown
              /\ l.type # <<>> =>
                     /\ e.damage_type = Tail(l.type)
                     /\ \A k \in 1..Len(e.damage_type) : ~IsSpace(e.damage_type[k])
                     /\ e.damage_type = Unknown => Tail(l.type) = Unknown

\* a line "... points of damage" has yielded the type "Unknown", and a line
\* "... points of slash damage" the type "slash"
C8_Witness ==
    /\ pc = "done"
    /\ Len(file) = 2
    /\ file[1].kind = "hit" /\ file[2].kind = "hit"
    /\ file[1].type = <<>> /\ file[2].type = Slash
    /\ Len(events) = 2
    /\ events[1].damage_type = Unknown
    /\ events[2].damage_type = <<"s", "l", "a", "s", "h">>

(***************************************************************************)
(* C9.  The match is anchored at the start of the line: a damage sentence  *)
(* with blanks or chat text before its bracketed time yields no event.     *)
(***************************************************************************)
C9_AnchoredAtLineStart ==
    [][(Reading /\ file[idx].kind = "hit" /\ file[idx].pre # <<>> /\ ~ReadFail)
        => /\ events' = events
           /\ stdout' = stdout
           /\ pc' = "read"
           /\ idx' = idx + 1]_vars

\* a sentence that conforms but for the blank before it was passed over
C9_Witness ==
    /\ pc = "done"
    /\ Len(file) = 1
    /\ file[1].kind = "hit"
    /\ file[1].pre = <<" ">>
    /\ Conforming([file[1] EXCEPT !.pre = <<>>])
    /\ idx = 2
    /\ events = <<>>
    /\ stdout = <<>>

(***************************************************************************)
(* C10.  A conforming damage sentence that is followed on its line by      *)
(* further text yields no event.                                           *)
(***************************************************************************)
\* as claimed
C10_TrailingTextUnrecognized ==
    [][(Reading /\ Conforming(file[idx]) /\ file[idx].suf # <<>> /\ ~ReadFail)
        => events' = events]_vars

\* as amended: the line yields exactly one event, with the time of day of
\* the sentence; unless the line reads two ways, the event is that of the
\* sentence
C10_TrailingTextIgnored ==
    [][(Reading /\ Conforming(file[idx]) /\ file[idx].suf # <<>> /\ ~ReadFail)
        => /\ Len(events') = Len(events) + 1
           /\ SubSeq(events', 1, Len(events)) = events
           /\ pc' = "yielded"
           /\ LET e == events'[Len(events')]
                  x == Expected(file[idx])
              IN /\ e.timestamp = x.timestamp
                 /\ e.source = x.source
                 /\ ~Ambiguous(file[idx]) => e = x]_vars

\* a sentence followed by " extra" has yielded its event
C10_Witness ==
    /\ pc = "yielded"
    /\ Len(file) = 1
    /\ file[1].kind = "hit"
    /\ file[1].suf = <<" ", "e", "x", "t", "r", "a">>
    /\ events = <<Expected(file[1])>>

====
